---- MODULE Spec2Model ----
(***************************************************************************)
(* Model of backend/main.py: the Sentencing Advisor (NyaySarthiTool) and   *)
(* the System Architect case-file registry (case_files_db, CriminalCase    *)
(* and its five request handlers).                                         *)
(*                                                                         *)
(* recommendation_months is a float rounded to one decimal place in the    *)
(* code; here it is held in TENTHS of a month (3.5 months is 35).          *)
(***************************************************************************)
EXTENDS Integers, Sequences, FiniteSets, TLC

VARIABLES
    dataset,        \* NyaySarthiTool.dataset (main.py 106-107, 124-125)
    rec,            \* the last /sentencing/recommend query and its result (127-129)
    heap,           \* the CriminalCase objects (167-172)
    case_files_db,  \* case_files_db (165)
    pc,             \* where each worker is in its handler (179-212)
    req,            \* each worker's request
    local,          \* each worker's local variables
    ret,            \* the response each worker delivered last
    now,            \* the wall clock datetime.now() reads (174), in ticks
    calls           \* the number of registry requests accepted so far

vars == <<dataset, rec, heap, case_files_db, pc, req, local, ret, now, calls>>
recVars == <<dataset, rec>>
regVars == <<heap, case_files_db, pc, req, local, ret, now, calls>>

(***************************************************************************)
(* Bounds of the model.                                                    *)
(***************************************************************************)
\* historical tables are a base table followed by at most MaxExtra cases
MaxExtra == 1
\* sentence_given_months of the extra cases ranges over 1..MaxSentence
MaxSentence == 3

(***************************************************************************)
(* Python's None and small helpers.                                        *)
(***************************************************************************)
None == [none |-> TRUE]

RECURSIVE SumSeq(_)
SumSeq(s) == IF s = <<>> THEN 0 ELSE Head(s) + SumSeq(Tail(s))

RECURSIVE MinSeq(_)
MinSeq(s) ==
    IF Len(s) = 1 THEN Head(s)
    ELSE LET m == MinSeq(Tail(s)) IN IF Head(s) <= m THEN Head(s) ELSE m

RECURSIVE MaxSeq(_)
MaxSeq(s) ==
    IF Len(s) = 1 THEN Head(s)
    ELSE LET m == MaxSeq(Tail(s)) IN IF Head(s) >= m THEN Head(s) ELSE m

(***************************************************************************)
(* Person 3: Sentencing Advisor.                                           *)
(***************************************************************************)
\* faulty variant: always rounds up to the next tenth
Round1Broken(total, n) == (10 * total) \div n + 1

\* round(total / n, 1) for integers total >= 0, n >= 1, in tenths.  The
\* quotient is a float; a tie (total/n exactly at an odd multiple of 0.05)
\* needs n to be a multiple of 4, and for n < 20 every tie is a multiple of
\* 0.25, which a float holds exactly, so Python rounds it half to even.
Round1(total, n) ==
    LET q == (10 * total) \div n
        r == (10 * total) % n
    IN  IF 2 * r < n THEN q
        ELSE IF 2 * r > n THEN q + 1
        ELSE IF q % 2 = 0 THEN q ELSE q + 1

get_stats(cases) ==
    IF cases = <<>> THEN None
    ELSE LET sentences == [i \in 1..Len(cases) |-> cases[i].sentence_given_months]
         IN  [recommendation_months |-> Round1(SumSeq(sentences), Len(sentences)),
              min_sentence |-> MinSeq(sentences),
              max_sentence |-> MaxSeq(sentences),
              case_count |-> Len(cases)]

\* faulty variant: the severity is not compared
matching_cases_AnySeverity(data, crime_type, severity_score) ==
    SelectSeq(data, LAMBDA c : c.crime_type = crime_type)

matching_cases(data, crime_type, severity_score) ==
    SelectSeq(data, LAMBDA c : c.crime_type = crime_type
                               /\ c.severity_score = severity_score)

\* faulty variant: the lower neighbour is forgotten
adjacent_UpperOnly(severity_score) ==
    {s \in {severity_score + 1} : 1 <= s /\ s <= 5}

adjacent(severity_score) ==
    {s \in {severity_score - 1, severity_score + 1} : 1 <= s /\ s <= 5}

\* faulty variant: the crime type is not compared
similar_cases_AnyType(data, crime_type, severity_score) ==
    SelectSeq(data, LAMBDA c : c.severity_score \in adjacent(severity_score))

similar_cases(data, crime_type, severity_score) ==
    SelectSeq(data, LAMBDA c : c.crime_type = crime_type
                               /\ c.severity_score \in adjacent(severity_score))

recommend_sentence(data, crime_type, severity_score) ==
    LET direct == matching_cases(data, crime_type, severity_score)
        similar == similar_cases(data, crime_type, severity_score)
    IN  IF direct # <<>> THEN
            LET stats == get_stats(direct)
            IN  [status |-> "Success", data |-> stats,
                 basis |-> "Direct match from " \o ToString(stats.case_count)
                           \o " historical case(s)."]
        ELSE IF similar # <<>> THEN
            LET stats == get_stats(similar)
            IN  [status |-> "Success (Estimated)", data |-> stats,
                 basis |-> "Estimate based on " \o ToString(stats.case_count)
                           \o " case(s) with similar severity."]
        ELSE [status |-> "Failed", data |-> None,
              basis |-> "No historical data found for this crime type."]

HCase(id, ct, sev, months) ==
    [case_id |-> id, crime_type |-> ct, severity_score |-> sev,
     sentence_given_months |-> months]

historical_data ==
    << HCase("HN001", "Theft", 2, 3),     HCase("HN002", "Assault", 3, 12),
       HCase("HN003", "Burglary", 4, 24), HCase("HN004", "Fraud", 5, 60),
       HCase("HN005", "Theft", 2, 4),     HCase("HN006", "Vandalism", 1, 1),
       HCase("HN007", "Burglary", 4, 30), HCase("HN008", "Assault", 4, 18),
       HCase("HN009", "Theft", 3, 6),     HCase("HN010", "Burglary", 4, 28) >>

\* the inputs of the recommender that the model explores
ExtraCrimeTypes == {"Theft", "Burglary"}
Severities == {1, 2, 3, 4, 5}
ExtraCases ==
    {HCase("HNX", ct, sev, m) : ct \in ExtraCrimeTypes, sev \in Severities,
                                m \in 1..MaxSentence}
ExtraSeqs == UNION {[1..n -> ExtraCases] : n \in 0..MaxExtra}
Tables == {base \o e : base \in {<<>>, historical_data}, e \in ExtraSeqs}
QueryCrimeTypes == {"Theft", "Burglary", "Fraud", "Homicide"}
QuerySeverities == {-1, 0, 1, 2, 3, 4, 5, 6, 7}

NoQuery == [called |-> FALSE]

\* faulty variant: the query is kept as a row of the table
Recommend_KeepsQuery(ct, sev) ==
    /\ rec' = [called |-> TRUE, crime_type |-> ct, severity_score |-> sev,
               result |-> recommend_sentence(dataset, ct, sev)]
    /\ dataset' = Append(dataset, HCase("HNQ", ct, sev, 0))
    /\ UNCHANGED regVars

\* api_recommend_sentence serving the query (ct, sev):
\* nyay_sarthi_tool.recommend_sentence(ct, sev) is the response
Recommend(ct, sev) ==
    /\ rec' = [called |-> TRUE, crime_type |-> ct, severity_score |-> sev,
               result |-> recommend_sentence(dataset, ct, sev)]
    /\ UNCHANGED <<dataset, regVars>>

\* POST /sentencing/recommend
api_recommend_sentence ==
    \E ct \in QueryCrimeTypes, sev \in QuerySeverities : Recommend(ct, sev)

(***************************************************************************)
(* Person 6: System Architect.                                             *)
(*                                                                         *)
(* heap holds the CriminalCase objects (an object's identity is its index) *)
(* and case_files_db is the dict, in insertion order, from case_id to an   *)
(* object.  The handlers are plain `def` endpoints, which the framework    *)
(* runs on worker threads: Threads are these workers, pc[t] the line the   *)
(* worker is at, req[t] its request, local[t] its local variables and      *)
(* ret[t] the response it delivered last.  Every step of a handler is a    *)
(* function from the registry state to the next one, so that a request can *)
(* be run step by step among other requests (Spec) or as a whole, one      *)
(* request after the other (SeqSpec).                                      *)
(***************************************************************************)
Threads == {"t1", "t2"}
CaseIds == {"C1", "C2"}
DefendantNames == {"Alice", "Bob"}
EvidenceItems == {"knife", "glove"}
NewStatuses == {"Trial", ""}

CreateReq(id, name) == [op |-> "create", case_id |-> id, defendant_name |-> name]
GetReq(id) == [op |-> "get", case_id |-> id]
EvidenceReq(id, item) == [op |-> "add_evidence", case_id |-> id, evidence_item |-> item]
StatusReq(id, st) == [op |-> "update_status", case_id |-> id, new_status |-> st]
GetAllReq == [op |-> "get_all"]

\* the state of the registry and of its workers, as one value
S ==
    [heap |-> heap, db |-> case_files_db, pc |-> pc, req |-> req,
     local |-> local, ret |-> ret, now |-> now]

Apply(s) ==
    /\ heap' = s.heap
    /\ case_files_db' = s.db
    /\ pc' = s.pc
    /\ req' = s.req
    /\ local' = s.local
    /\ ret' = s.ret
    /\ now' = s.now
    /\ UNCHANGED recVars

\* CriminalCase.__init__
CriminalCase(case_id, defendant_name) ==
    [case_id |-> case_id, defendant_name |-> defendant_name,
     evidence_log |-> <<>>, case_status |-> "Investigation"]

\* key in d
dict_contains(d, k) == \E i \in DOMAIN d : d[i].key = k

\* d.get(k): the object under k, or None
dict_get(d, k) ==
    IF dict_contains(d, k)
    THEN d[CHOOSE i \in DOMAIN d : d[i].key = k].value
    ELSE None

\* `if case:` after case = d.get(k): a CriminalCase object is always true,
\* None is false
found(d, k) == dict_contains(d, k)

\* d[k] = v: a key the dict holds keeps its place and takes the new value
dict_setitem(d, k, v) ==
    IF dict_contains(d, k)
    THEN [i \in DOMAIN d |-> IF d[i].key = k THEN [key |-> k, value |-> v] ELSE d[i]]
    ELSE Append(d, [key |-> k, value |-> v])

\* datetime.datetime.now().strftime("%Y-%m-%d %H:%M:%S"): the clock counts
\* ticks of 1/TicksPerSecond s and the string keeps whole seconds
TicksPerSecond == 2
strftime(ticks) == ticks \div TicksPerSecond

\* faulty variant: the entry is put in front
add_evidence_Prepend(case, evidence_item, timestamp) ==
    [case EXCEPT !.evidence_log =
        <<[evidence_item |-> evidence_item, timestamp |-> timestamp]>> \o @]

\* CriminalCase.add_evidence, given the timestamp it read
add_evidence(case, evidence_item, timestamp) ==
    [case EXCEPT !.evidence_log =
        Append(@, [evidence_item |-> evidence_item, timestamp |-> timestamp])]

\* faulty variant: a status once set is final
update_status_OnlyFromInvestigation(case, new_status) ==
    IF case.case_status = "Investigation"
    THEN [case EXCEPT !.case_status = new_status]
    ELSE case

\* CriminalCase.update_status
update_status(case, new_status) == [case EXCEPT !.case_status = new_status]

\* `return result`: to_dict hands out the object's own __dict__, so a
\* returned record is a reference (ref, refs) until the response is encoded
return_value(s, t, result) ==
    [s EXCEPT !.pc[t] = "serialize", !.local[t] = [result |-> result]]

CaseNotFound == [status |-> "not_found", message |-> "Case not found."]
CaseExists == [status |-> "error", message |-> "Case ID already exists."]
Success(data) == [status |-> "success", data |-> data]

\* the framework encodes the returned dict into the response body
jsonable_encoder(h, result) ==
    IF "data" \notin DOMAIN result THEN result
    ELSE IF "ref" \in DOMAIN result.data
         THEN [result EXCEPT !.data = h[result.data.ref]]
         ELSE [result EXCEPT !.data =
                  [i \in DOMAIN result.data.refs |-> h[result.data.refs[i]]]]

serialize(s, t) ==
    [s EXCEPT !.pc[t] = "idle", !.local[t] = None,
              !.ret[t] = jsonable_encoder(s.heap, s.local[t].result)]

\* faulty variant: the object enters the dict before __init__ has set its
\* evidence_log and case_status
create_check_PublishEarly(s, t) ==
    IF dict_contains(s.db, s.req[t].case_id)
    THEN return_value(s, t, CaseExists)
    ELSE [s EXCEPT !.heap = Append(@, [case_id |-> s.req[t].case_id,
                                       defendant_name |-> s.req[t].defendant_name]),
                   !.db = dict_setitem(@, s.req[t].case_id, Len(s.heap) + 1),
                   !.local[t] = [new_case |-> Len(s.heap) + 1],
                   !.pc[t] = "create_insert"]

\* faulty variant: no membership test
create_check_Overwrite(s, t) ==
    [s EXCEPT !.heap = Append(@, CriminalCase(s.req[t].case_id,
                                               s.req[t].defendant_name)),
              !.local[t] = [new_case |-> Len(s.heap) + 1],
              !.pc[t] = "create_insert"]

\* api_create_case, `if data.case_id in case_files_db` and, if not,
\* `new_case = CriminalCase(...)`
create_check(s, t) ==
    IF dict_contains(s.db, s.req[t].case_id)
    THEN return_value(s, t, CaseExists)
    ELSE [s EXCEPT !.heap = Append(@, CriminalCase(s.req[t].case_id,
                                                   s.req[t].defendant_name)),
                   !.local[t] = [new_case |-> Len(s.heap) + 1],
                   !.pc[t] = "create_insert"]

\* api_create_case, `case_files_db[data.case_id] = new_case` and the return
create_insert(s, t) ==
    return_value(
        [s EXCEPT !.db = dict_setitem(@, s.req[t].case_id, s.local[t].new_case)],
        t, Success([ref |-> s.local[t].new_case]))

\* api_get_case
get_case(s, t) ==
    LET case == dict_get(s.db, s.req[t].case_id)
    IN  IF found(s.db, s.req[t].case_id)
        THEN return_value(s, t, Success([ref |-> case]))
        ELSE return_value(s, t, CaseNotFound)

\* faulty variant: a missing case is created on the fly
add_get_SetDefault(s, t) ==
    LET case == dict_get(s.db, s.req[t].case_id)
    IN  IF found(s.db, s.req[t].case_id)
        THEN [s EXCEPT !.local[t] = [case |-> case], !.pc[t] = "add_now"]
        ELSE [s EXCEPT !.heap = Append(@, CriminalCase(s.req[t].case_id, "")),
                       !.db = dict_setitem(@, s.req[t].case_id, Len(s.heap) + 1),
                       !.local[t] = [case |-> Len(s.heap) + 1],
                       !.pc[t] = "add_now"]

\* api_add_evidence, `case = case_files_db.get(case_id)` and `if case`
add_get(s, t) ==
    LET case == dict_get(s.db, s.req[t].case_id)
    IN  IF found(s.db, s.req[t].case_id)
        THEN [s EXCEPT !.local[t] = [case |-> case], !.pc[t] = "add_now"]
        ELSE return_value(s, t, CaseNotFound)

\* CriminalCase.add_evidence, the timestamp is read first
add_now(s, t) ==
    [s EXCEPT !.local[t] = [case |-> s.local[t].case, timestamp |-> strftime(s.now)],
              !.pc[t] = "add_append"]

\* faulty variant: evidence_log is one list shared by every CriminalCase
add_append_SharedLog(s, t) ==
    LET case == s.local[t].case
    IN  return_value(
            [s EXCEPT !.heap = [r \in DOMAIN s.heap |->
                                   add_evidence(s.heap[r], s.req[t].evidence_item,
                                                s.local[t].timestamp)]],
            t, Success([ref |-> case]))

\* CriminalCase.add_evidence, the append, and api_add_evidence's return
add_append(s, t) ==
    LET case == s.local[t].case
    IN  return_value(
            [s EXCEPT !.heap[case] = add_evidence(@, s.req[t].evidence_item,
                                                  s.local[t].timestamp)],
            t, Success([ref |-> case]))

\* faulty variant: `if case and case.case_status`, an empty status is final
update_get_EmptyIsFinal(s, t) ==
    LET case == dict_get(s.db, s.req[t].case_id)
    IN  IF found(s.db, s.req[t].case_id) /\ s.heap[case].case_status # ""
        THEN [s EXCEPT !.local[t] = [case |-> case], !.pc[t] = "update_set"]
        ELSE return_value(s, t, CaseNotFound)

\* api_update_status, the lookup
update_get(s, t) ==
    LET case == dict_get(s.db, s.req[t].case_id)
    IN  IF found(s.db, s.req[t].case_id)
        THEN [s EXCEPT !.local[t] = [case |-> case], !.pc[t] = "update_set"]
        ELSE return_value(s, t, CaseNotFound)

\* faulty variant: the update puts a new object with the new status in the
\* place of the old one
update_set_FreshObject(s, t) ==
    LET case == s.local[t].case
    IN  return_value(
            [s EXCEPT !.heap[case] =
                update_status(CriminalCase(@.case_id, @.defendant_name),
                              s.req[t].new_status)],
            t, Success([ref |-> case]))

\* api_update_status, case.update_status(...) and the return
update_set(s, t) ==
    LET case == s.local[t].case
    IN  return_value(
            [s EXCEPT !.heap[case] = update_status(@, s.req[t].new_status)],
            t, Success([ref |-> case]))

\* api_get_all_cases, iter(case_files_db.values()): the iterator remembers
\* the size of the dict
all_iter(s, t) ==
    [s EXCEPT !.local[t] = [di_used |-> Len(s.db), di_pos |-> 0, acc |-> <<>>],
              !.pc[t] = "all_next"]

InternalServerError ==
    [status |-> "internal_server_error",
     exception |-> "RuntimeError: dictionary changed size during iteration"]

\* api_get_all_cases, one turn of the comprehension: next() on the iterator
\* raises if the dict changed size, ends the list at the end of the dict,
\* else yields the next object, whose to_dict() joins the list
all_next(s, t) ==
    LET it == s.local[t]
    IN  IF Len(s.db) # it.di_used
        THEN return_value(s, t, InternalServerError)
        ELSE IF it.di_pos >= Len(s.db)
        THEN return_value(s, t, Success([refs |-> it.acc]))
        ELSE [s EXCEPT !.local[t] =
                 [it EXCEPT !.di_pos = @ + 1,
                            !.acc = Append(@, s.db[it.di_pos + 1].value)]]

\* the first line of each handler
Entry(op) ==
    CASE op = "create" -> "create_check"
      [] op = "get" -> "get_case"
      [] op = "add_evidence" -> "add_get"
      [] op = "update_status" -> "update_get"
      [] op = "get_all" -> "all_iter"

\* the framework hands request r to worker t
dispatch(s, t, r) ==
    [s EXCEPT !.pc[t] = Entry(r.op), !.req[t] = r, !.local[t] = None,
              !.ret[t] = None]

\* the step worker t takes next
handler_step(s, t) ==
    CASE s.pc[t] = "create_check" -> create_check(s, t)
      [] s.pc[t] = "create_insert" -> create_insert(s, t)
      [] s.pc[t] = "get_case" -> get_case(s, t)
      [] s.pc[t] = "add_get" -> add_get(s, t)
      [] s.pc[t] = "add_now" -> add_now(s, t)
      [] s.pc[t] = "add_append" -> add_append(s, t)
      [] s.pc[t] = "update_get" -> update_get(s, t)
      [] s.pc[t] = "update_set" -> update_set(s, t)
      [] s.pc[t] = "all_iter" -> all_iter(s, t)
      [] s.pc[t] = "all_next" -> all_next(s, t)
      [] s.pc[t] = "serialize" -> serialize(s, t)

\* worker t runs its handler to the end, no other worker moving
RECURSIVE run_handler(_, _)
run_handler(s, t) ==
    IF s.pc[t] = "idle" THEN s ELSE run_handler(handler_step(s, t), t)

(***************************************************************************)
(* Bounds of the registry: the clock stops at MaxClock ticks, and calls    *)
(* counts the requests accepted so far, of which there are at most         *)
(* MaxCalls.                                                               *)
(***************************************************************************)
MaxClock == 2
MaxCalls == 3

Accept ==
    /\ calls < MaxCalls
    /\ calls' = calls + 1

(***************************************************************************)
(* Requests served one at a time (SeqSpec): an action is a whole handler.  *)
(***************************************************************************)
Call(t, r) ==
    /\ \A u \in Threads : pc[u] = "idle"
    /\ Accept
    /\ Apply(run_handler(dispatch(S, t, r), t))

api_create_case ==
    \E t \in Threads, id \in CaseIds, name \in DefendantNames :
        Call(t, CreateReq(id, name))

api_get_case ==
    \E t \in Threads, id \in CaseIds : Call(t, GetReq(id))

api_add_evidence ==
    \E t \in Threads, id \in CaseIds, item \in EvidenceItems :
        Call(t, EvidenceReq(id, item))

api_update_status ==
    \E t \in Threads, id \in CaseIds, st \in NewStatuses :
        Call(t, StatusReq(id, st))

api_get_all_cases ==
    \E t \in Threads : Call(t, GetAllReq)

\* the wall clock advances
Tick ==
    /\ now < MaxClock
    /\ now' = now + 1
    /\ UNCHANGED <<heap, case_files_db, pc, req, local, ret, calls, recVars>>

(***************************************************************************)
(* Requests served concurrently (Spec): an action is one step of a worker. *)
(***************************************************************************)
Requests ==
    {CreateReq(id, name) : id \in CaseIds, name \in DefendantNames}
    \cup {GetReq(id) : id \in CaseIds}
    \cup {EvidenceReq(id, item) : id \in CaseIds, item \in EvidenceItems}
    \cup {StatusReq(id, st) : id \in CaseIds, st \in NewStatuses}
    \cup {GetAllReq}

Dispatch(t) ==
    /\ pc[t] = "idle"
    /\ Accept
    /\ \E r \in Requests : Apply(dispatch(S, t, r))

At(t, label) ==
    /\ pc[t] = label
    /\ Apply(handler_step(S, t))
    /\ UNCHANGED calls

CreateCheck(t) == At(t, "create_check")
CreateInsert(t) == At(t, "create_insert")
GetCase(t) == At(t, "get_case")
AddGet(t) == At(t, "add_get")
AddNow(t) == At(t, "add_now")
AddAppend(t) == At(t, "add_append")
UpdateGet(t) == At(t, "update_get")
UpdateSet(t) == At(t, "update_set")
AllIter(t) == At(t, "all_iter")
AllNext(t) == At(t, "all_next")
Serialize(t) == At(t, "serialize")

RegInit ==
    /\ heap = <<>>
    /\ case_files_db = <<>>
    /\ pc = [t \in Threads |-> "idle"]
    /\ req = [t \in Threads |-> None]
    /\ local = [t \in Threads |-> None]
    /\ ret = [t \in Threads |-> None]
    /\ now = 0
    /\ calls = 0

Init ==
    /\ dataset = historical_data
    /\ rec = NoQuery
    /\ RegInit

\* add_now is the only line that reads the clock, so a tick at any other
\* moment shows in no handler until a worker stands at add_now: among
\* concurrent workers the clock is advanced only then (a tick commutes
\* with every other step)
ClockRead == \E t \in Threads : pc[t] = "add_now"

Next ==
    \/ \E t \in Threads : Dispatch(t)
    \/ \E t \in Threads : CreateCheck(t)
    \/ \E t \in Threads : CreateInsert(t)
    \/ \E t \in Threads : GetCase(t)
    \/ \E t \in Threads : AddGet(t)
    \/ \E t \in Threads : AddNow(t)
    \/ \E t \in Threads : AddAppend(t)
    \/ \E t \in Threads : UpdateGet(t)
    \/ \E t \in Threads : UpdateSet(t)
    \/ \E t \in Threads : AllIter(t)
    \/ \E t \in Threads : AllNext(t)
    \/ \E t \in Threads : Serialize(t)
    \/ ClockRead /\ Tick

Spec == Init /\ [][Next]_vars

SeqNext ==
    \/ api_create_case
    \/ api_get_case
    \/ api_add_evidence
    \/ api_update_status
    \/ api_get_all_cases
    \/ Tick

SeqSpec == Init /\ [][SeqNext]_vars

\* the recommender alone, over every table and query of the bounds
RecInit ==
    /\ dataset \in Tables
    /\ rec = NoQuery
    /\ RegInit

RecNext == api_recommend_sentence

RecSpec == RecInit /\ [][RecNext]_vars

\* the whole application: the registry's handlers and the recommender's,
\* one call at a time, with at most MaxSysCalls registry requests
MaxSysCalls == 2

\* a query of each outcome over historical_data: direct match, estimate,
\* no case in range, unknown crime type
SysQueries ==
    {<<"Theft", 2>>, <<"Theft", 4>>, <<"Fraud", 2>>, <<"Homicide", 3>>}

SysRecommend == \E q \in SysQueries : Recommend(q[1], q[2])

SysNext ==
    \/ calls < MaxSysCalls /\ SeqNext
    \/ SysRecommend

SysSpec == Init /\ [][SysNext]_vars

(***************************************************************************)
(* Properties of the case registry.                                        *)
(***************************************************************************)
Registered(id) == dict_contains(case_files_db, id)

\* the record getCase(id) reads
Record(id) == heap[dict_get(case_files_db, id)]

\* id is registered after the step
RegisteredAfter(id) == dict_contains(case_files_db', id)

\* the record getCase(id) reads after the step
RecordAfter(id) == heap'[dict_get(case_files_db', id)]

\* the registry as its callers see it: the keys, in order, with their records
RegistryView ==
    [i \in DOMAIN case_files_db |->
        [key |-> case_files_db[i].key, record |-> heap[case_files_db[i].value]]]

\* worker t has answered a request of kind op, and this was its last one
Answered(t, op) ==
    /\ pc[t] = "idle"
    /\ req[t] # None
    /\ req[t].op = op

\* this step is worker t serving, as a whole, a request of kind op
Serves(t, op) ==
    /\ req'[t] # None
    /\ req'[t].op = op
    /\ Call(t, req'[t])

\* C1: of two createCase calls with the same caseId running concurrently
\* one succeeds and the other gets the duplicate error: never do both
\* succeed, and a record once inserted under a caseId is never replaced by
\* another one.
C1_ExclusiveCreate ==
    [][ /\ \A t1, t2 \in Threads :
              (/\ t1 # t2
               /\ Answered(t1, "create")'
               /\ Answered(t2, "create")'
               /\ req'[t1].case_id = req'[t2].case_id)
                  => ~(ret'[t1].status = "success" /\ ret'[t2].status = "success")
        /\ \A id \in CaseIds :
              Registered(id) =>
                  dict_get(case_files_db', id) = dict_get(case_files_db, id) ]_vars

\* C2: requests served one after the other, createCase on a registered
\* caseId returns the duplicate error and leaves the registry as it was
\* (name, evidence log and status of the record, and the set of records).
C2_DuplicateRejected ==
    [][ \A t \in Threads :
          (Serves(t, "create") /\ Registered(req'[t].case_id))
              => /\ ret'[t] = CaseExists
                 /\ "data" \notin DOMAIN ret'[t]
                 /\ RegistryView' = RegistryView
                 /\ heap' = heap ]_vars

\* createCase("C1","Bob") was refused and the record still names Alice
C2_Witness ==
    \E t \in Threads :
        /\ Answered(t, "create")
        /\ ret[t] = CaseExists
        /\ req[t] = CreateReq("C1", "Bob")
        /\ Record("C1").defendant_name = "Alice"

\* C3: a successful addEvidence(id, item) makes the log of case id one entry
\* longer, the new entry is the last and carries item, and the entries that
\* were there keep their place, item and timestamp.
C3_AppendOnly ==
    [][ \A t \in Threads :
          (Serves(t, "add_evidence") /\ ret'[t].status = "success")
              => LET id == req'[t].case_id
                     old == Record(id).evidence_log
                     new == RecordAfter(id).evidence_log
                 IN  /\ Len(new) = Len(old) + 1
                     /\ new[Len(new)].evidence_item = req'[t].evidence_item
                     /\ SubSeq(new, 1, Len(old)) = old
                     /\ ret'[t].data.evidence_log = new ]_vars

\* evidence was added to a log that already held a different item
C3_Witness ==
    \E t \in Threads :
        /\ Answered(t, "add_evidence")
        /\ ret[t].status = "success"
        /\ Len(ret[t].data.evidence_log) = 2
        /\ ret[t].data.evidence_log[1].evidence_item
              # ret[t].data.evidence_log[2].evidence_item

SuccessfulUpdate(t, id) ==
    /\ Serves(t, "update_status")
    /\ req'[t].case_id = id
    /\ ret'[t].status = "success"

\* C4: the status of a registered case is the newStatus of the latest
\* successful updateStatus on it, or "Investigation" if there was none:
\* a successful updateStatus sets it, nothing else changes it, a new record
\* starts at "Investigation", getCase returns it, and updateStatus on a
\* registered case succeeds whatever the string.
C4_StatusIsLastUpdate ==
    [][ /\ \A id \in CaseIds :
              Registered(id)' =>
                  IF \E t \in Threads : SuccessfulUpdate(t, id)
                  THEN \E t \in Threads :
                          /\ SuccessfulUpdate(t, id)
                          /\ RecordAfter(id).case_status = req'[t].new_status
                  ELSE IF Registered(id)
                  THEN RecordAfter(id).case_status = Record(id).case_status
                  ELSE RecordAfter(id).case_status = "Investigation"
        /\ \A t \in Threads :
              (Serves(t, "get") /\ Registered(req'[t].case_id))
                  => /\ ret'[t].status = "success"
                     /\ ret'[t].data.case_status = RecordAfter(req'[t].case_id).case_status
        /\ \A t \in Threads :
              (Serves(t, "update_status") /\ Registered(req'[t].case_id))
                  => ret'[t].status = "success" ]_vars

\* getCase returned a status that an updateStatus had set (the empty string)
C4_Witness ==
    \E t \in Threads :
        /\ Answered(t, "get")
        /\ ret[t].status = "success"
        /\ ret[t].data.case_status = ""

\* C5: getCase, addEvidence and updateStatus on a caseId that is not
\* registered return not-found, which is neither success nor the duplicate
\* error, and leave the registry as it was.
C5_NotFound ==
    [][ \A t \in Threads :
          ((Serves(t, "get") \/ Serves(t, "add_evidence") \/ Serves(t, "update_status"))
           /\ ~Registered(req'[t].case_id))
              => /\ ret'[t] = CaseNotFound
                 /\ ret'[t].status \notin {"success", CaseExists.status}
                 /\ RegistryView' = RegistryView
                 /\ heap' = heap ]_vars

\* addEvidence was refused for an unregistered caseId while another case
\* was registered
C5_Witness ==
    \E t \in Threads :
        /\ Answered(t, "add_evidence")
        /\ ret[t] = CaseNotFound
        /\ ~Registered(req[t].case_id)
        /\ case_files_db # <<>>

\* a whole record as its readers must see it under key k: the four
\* attributes, the key as its case_id, and entries with item and timestamp
Complete(r, k) ==
    /\ DOMAIN r = {"case_id", "defendant_name", "evidence_log", "case_status"}
    /\ r.case_id = k
    /\ \A i \in DOMAIN r.evidence_log :
          DOMAIN r.evidence_log[i] = {"evidence_item", "timestamp"}

\* new is old after one evidence-append
OneAppend(old, new) ==
    /\ Len(new.evidence_log) = Len(old.evidence_log) + 1
    /\ new = [old EXCEPT !.evidence_log = Append(@, new.evidence_log[Len(new.evidence_log)])]

\* new is old after one status-update
OneStatus(old, new) == new = [old EXCEPT !.case_status = new.case_status]

\* C11: under any interleaving of the handlers' steps a record of the
\* registry is never seen partially updated: a record becomes visible under
\* its key whole, with an empty evidence log and status "Investigation",
\* and a step changes a visible record by one whole evidence entry or by
\* its status, or not at all.
C11_AtomicRecords ==
    [][ \A k \in CaseIds :
          Registered(k)' =>
              /\ Complete(RecordAfter(k), k)
              /\ IF Registered(k)
                    /\ dict_get(case_files_db', k) = dict_get(case_files_db, k)
                 THEN \/ RecordAfter(k) = Record(k)
                      \/ OneAppend(Record(k), RecordAfter(k))
                      \/ OneStatus(Record(k), RecordAfter(k))
                 ELSE /\ RecordAfter(k).evidence_log = <<>>
                      /\ RecordAfter(k).case_status = "Investigation" ]_vars

\* a reader is about to look a case up while a writer, having read the
\* clock, is about to append to that case
C11_Witness ==
    \E t, u \in Threads :
        /\ pc[t] = "add_append"
        /\ pc[u] = "get_case"
        /\ req[u].case_id = req[t].case_id
        /\ Registered(req[u].case_id)
        /\ dict_get(case_files_db, req[u].case_id) = local[t].case

\* C12 (api_create_case lines 185-188, CriminalCase lines 169-170): the
\* record under a registered key k keeps caseId k and the defendantName it was
\* registered with, whatever createCase, addEvidence and updateStatus calls
\* follow, in any interleaving.
C12_IdentityImmutable ==
    [][ \A k \in CaseIds :
          Registered(k) =>
              /\ Registered(k)'
              /\ RecordAfter(k).case_id = k
              /\ RecordAfter(k).defendant_name = Record(k).defendant_name ]_vars

\* this step is worker t serving, as a whole, a request of kind op with
\* status "success"
Succeeds(t, op) ==
    /\ Serves(t, op)
    /\ ret'[t].status = "success"

\* C13 (CriminalCase.__init__ lines 168-172, api_create_case lines 187-189):
\* the record a successful createCase(id, name) inserts and returns has
\* caseId id, defendantName name, an empty evidence log and status
\* "Investigation"; every record has an evidence log of its own, so that a
\* successful addEvidence on one case changes the log of no other case.
C13_FreshRecord ==
    [][ \A t \in Threads :
          /\ Succeeds(t, "create") =>
                /\ ret'[t].data = CriminalCase(req'[t].case_id,
                                               req'[t].defendant_name)
                /\ RegisteredAfter(req'[t].case_id)
                /\ RecordAfter(req'[t].case_id) = ret'[t].data
          /\ Succeeds(t, "add_evidence") =>
                \A k \in CaseIds \ {req'[t].case_id} :
                    Registered(k)' =>
                        /\ Registered(k)
                        /\ RecordAfter(k).evidence_log = Record(k).evidence_log ]_vars

\* a case was created after evidence was added to another one
C13_Witness ==
    \E t \in Threads, k \in CaseIds :
        /\ Answered(t, "create")
        /\ ret[t].status = "success"
        /\ k # req[t].case_id
        /\ Registered(k)
        /\ Record(k).evidence_log # <<>>
        /\ Record(req[t].case_id).evidence_log = <<>>

\* C14 (case_files_db and its handlers, lines 165-212): a registered caseId
\* stays registered, and every evidence entry of the record getCase(id) reads
\* is still in that record's evidence log, at the same position, after every
\* later step, in any interleaving.
C14_Durable ==
    [][ \A k \in CaseIds :
          Registered(k) =>
              /\ Registered(k)'
              /\ Len(RecordAfter(k).evidence_log) >= Len(Record(k).evidence_log)
              /\ \A i \in DOMAIN Record(k).evidence_log :
                    RecordAfter(k).evidence_log[i] = Record(k).evidence_log[i] ]_vars

\* C15 (CriminalCase.add_evidence line 174): in every evidence log the
\* entries are in chronological order: an entry's timestamp is never later
\* than that of an entry after it, under any interleaving of addEvidence
\* calls.
C15_Chronological ==
    \A r \in DOMAIN heap :
        \A i, j \in DOMAIN heap[r].evidence_log :
            i < j => heap[r].evidence_log[i].timestamp
                        <= heap[r].evidence_log[j].timestamp

\* C16 (CriminalCase.to_dict line 177, the returns of lines 181-211): the
\* value a handler has returned is a snapshot: what it shows (evidence log
\* and status of its records) is changed by no later step, such as a later
\* addEvidence or updateStatus on the same case.
C16_Snapshot ==
    [][ \A t \in Threads :
          (pc[t] = "serialize" /\ pc'[t] = "serialize")
              => jsonable_encoder(heap', local'[t].result)
                    = jsonable_encoder(heap, local[t].result) ]_vars

\* C17 (api_add_evidence lines 199-204, api_update_status lines 207-212): on a
\* registered case addEvidence and updateStatus succeed and take effect
\* whatever the case's status string (the empty string included) and
\* whatever its evidence log holds: no status is terminal.
C17_NeverDisabled ==
    [][ \A t \in Threads :
          /\ (Serves(t, "add_evidence") /\ Registered(req'[t].case_id))
                => /\ ret'[t].status = "success"
                   /\ Len(RecordAfter(req'[t].case_id).evidence_log)
                         = Len(Record(req'[t].case_id).evidence_log) + 1
          /\ (Serves(t, "update_status") /\ Registered(req'[t].case_id))
                => /\ ret'[t].status = "success"
                   /\ RecordAfter(req'[t].case_id).case_status
                         = req'[t].new_status ]_vars

\* a case whose status was the empty string was moved on to "Trial"
C17_Witness ==
    \E t, u \in Threads :
        /\ Answered(t, "update_status")
        /\ ret[t].status = "success"
        /\ ret[t].data.case_status = "Trial"
        /\ Answered(u, "update_status")
        /\ req[u].case_id = req[t].case_id
        /\ ret[u].status = "success"
        /\ ret[u].data.case_status = ""
        /\ Record(req[t].case_id).case_status = "Trial"

\* this step is a successful addEvidence or updateStatus on caseId k
Mutates(k) ==
    \E t \in Threads :
        /\ Succeeds(t, "add_evidence") \/ Succeeds(t, "update_status")
        /\ req'[t].case_id = k

\* C18 (CriminalCase lines 173-176, the handlers lines 179-212): a record
\* changes only through a successful addEvidence or updateStatus on its own
\* caseId; addEvidence leaves the status (and identity) of its case as they
\* were, updateStatus leaves the evidence log of its case as it was, and
\* createCase, getCase and getAllCases change no existing record.
C18_Frame ==
    [][ /\ \A k \in CaseIds :
              Registered(k) =>
                  /\ RegisteredAfter(k)
                  /\ RecordAfter(k) # Record(k) => Mutates(k)
        /\ \A t \in Threads :
              /\ Succeeds(t, "add_evidence") =>
                    RecordAfter(req'[t].case_id)
                       = [Record(req'[t].case_id) EXCEPT !.evidence_log =
                             RecordAfter(req'[t].case_id).evidence_log]
              /\ Succeeds(t, "update_status") =>
                    RecordAfter(req'[t].case_id)
                       = [Record(req'[t].case_id) EXCEPT !.case_status =
                             RecordAfter(req'[t].case_id).case_status] ]_vars

\* updateStatus succeeded on a case that had evidence in its log
C18_Witness ==
    \E t \in Threads :
        /\ Answered(t, "update_status")
        /\ ret[t].status = "success"
        /\ ret[t].data.case_status # "Investigation"
        /\ ret[t].data.evidence_log # <<>>

\* C20 (api_get_all_cases lines 180-181, api_create_case line 188):
\* getAllCases never ends in an error: it answers with success, whatever
\* createCase calls insert new keys while it iterates over the registry.
C20_GetAllSucceeds ==
    \A t \in Threads :
        Answered(t, "get_all") => ret[t].status = "success"

(***************************************************************************)
(* Properties of the Sentencing Advisor (checked under RecSpec).           *)
(***************************************************************************)
\* the positions of the table holding a case of type ct at a severity in sevs
CasesAt(ct, sevs) ==
    {i \in DOMAIN dataset : dataset[i].crime_type = ct
                            /\ dataset[i].severity_score \in sevs}

RECURSIVE TotalMonths(_)
TotalMonths(I) ==
    IF I = {} THEN 0
    ELSE LET i == CHOOSE j \in I : TRUE
         IN  dataset[i].sentence_given_months + TotalMonths(I \ {i})

\* d holds the statistics of the cases at positions I: their number, their
\* least and greatest sentence, and a tenth of a month nearest to their mean
StatsOf(d, I) ==
    /\ d.case_count = Cardinality(I)
    /\ \E i \in I : d.min_sentence = dataset[i].sentence_given_months
    /\ \A i \in I : d.min_sentence <= dataset[i].sentence_given_months
    /\ \E i \in I : d.max_sentence = dataset[i].sentence_given_months
    /\ \A i \in I : d.max_sentence >= dataset[i].sentence_given_months
    /\ LET diff == Cardinality(I) * d.recommendation_months - 10 * TotalMonths(I)
       IN  2 * diff <= Cardinality(I) /\ -2 * diff <= Cardinality(I)

InRangeNeighbours(sev) == {sev - 1, sev + 1} \cap {1, 2, 3, 4, 5}

\* C6: recommend returns "Failed" with no data for every severity_score
\* outside [1,5], whatever the crime type and the table.
C6_OutOfRangeIsNoData ==
    (rec.called /\ rec.severity_score \notin {1, 2, 3, 4, 5})
        => (rec.result.status = "Failed" /\ rec.result.data = None)

\* C7: with at least one case of exactly the queried type and severity the
\* result is "Success" and its statistics are those of exactly these cases;
\* on the shipped table recommend("Theft", 2) gives 3.5, 3, 4, 2.
C7_DirectMatch ==
    rec.called =>
        LET I == CasesAt(rec.crime_type, {rec.severity_score})
        IN  /\ I # {} => /\ rec.result.status = "Success"
                         /\ StatsOf(rec.result.data, I)
            /\ (dataset = historical_data /\ rec.crime_type = "Theft"
                /\ rec.severity_score = 2)
                   => rec.result.data = [recommendation_months |-> 35,
                                         min_sentence |-> 3, max_sentence |-> 4,
                                         case_count |-> 2]

\* a direct match in a table that also holds the type at an adjacent severity
C7_Witness ==
    /\ rec.called
    /\ rec.result.status = "Success"
    /\ CasesAt(rec.crime_type, {rec.severity_score}) # {}
    /\ CasesAt(rec.crime_type, InRangeNeighbours(rec.severity_score)) # {}

\* C8: with no case at the queried severity but one at severity-1 or
\* severity+1 (kept if in [1,5]) the result is "Success (Estimated)" and its
\* statistics pool the cases of both neighbours; on the shipped table
\* recommend("Burglary", 3) gives 27.3, 24, 30, 3.
C8_EstimatedMatch ==
    rec.called =>
        LET I == CasesAt(rec.crime_type, {rec.severity_score})
            N == CasesAt(rec.crime_type, InRangeNeighbours(rec.severity_score))
        IN  /\ (I = {} /\ N # {}) => /\ rec.result.status = "Success (Estimated)"
                                     /\ StatsOf(rec.result.data, N)
            /\ (dataset = historical_data /\ rec.crime_type = "Burglary"
                /\ rec.severity_score = 3)
                   => rec.result.data = [recommendation_months |-> 273,
                                         min_sentence |-> 24, max_sentence |-> 30,
                                         case_count |-> 3]

\* an estimate whose pool draws on both neighbours
C8_Witness ==
    /\ rec.called
    /\ rec.result.status = "Success (Estimated)"
    /\ CasesAt(rec.crime_type, {rec.severity_score - 1}) # {}
    /\ CasesAt(rec.crime_type, {rec.severity_score + 1}) # {}

\* C9: for a crime type no case of the table has, and any severity, the
\* result is "Failed" with no data and the basis "No historical data found
\* for this crime type."
C9_UnknownCrimeType ==
    (rec.called /\ \A i \in DOMAIN dataset : dataset[i].crime_type # rec.crime_type)
        => rec.result = [status |-> "Failed", data |-> None,
                         basis |-> "No historical data found for this crime type."]

\* recommend("Homicide", 5) on the shipped table
C9_Witness ==
    /\ rec.called
    /\ dataset = historical_data
    /\ rec.crime_type = "Homicide"
    /\ rec.severity_score = 5
    /\ rec.result.status = "Failed"

\* C10: whenever the status is not "Failed", min_sentence <=
\* recommendation_months <= max_sentence and case_count >= 1.
C10_MeanWithinRange ==
    (rec.called /\ rec.result.status # "Failed")
        => /\ 10 * rec.result.data.min_sentence <= rec.result.data.recommendation_months
           /\ rec.result.data.recommendation_months <= 10 * rec.result.data.max_sentence
           /\ rec.result.data.case_count >= 1

\* a mean of four cases that had to be rounded (a tie at a quarter month)
C10_Witness ==
    /\ rec.called
    /\ rec.result.status # "Failed"
    /\ rec.result.data.case_count = 4
    /\ LET I == IF rec.result.status = "Success"
                THEN CasesAt(rec.crime_type, {rec.severity_score})
                ELSE CasesAt(rec.crime_type, InRangeNeighbours(rec.severity_score))
       IN  (10 * TotalMonths(I)) % 4 = 2

\* C19 (NyaySarthiTool lines 105-122, api_recommend_sentence lines 127-129,
\* the registry lines 165-212): recommend changes neither the historical
\* table nor the case registry, no registry operation changes the table or
\* a recommendation, and the result for a query is the one computed from the
\* table as loaded, whatever registry operations came before.
C19_Independent ==
    [][ /\ dataset' = dataset
        /\ rec' # rec => regVars' = regVars
        /\ regVars' # regVars => rec' = rec
        /\ rec'.called =>
              rec'.result = recommend_sentence(historical_data, rec'.crime_type,
                                               rec'.severity_score) ]_vars

\* a recommendation was given with a case and its evidence in the registry
C19_Witness ==
    /\ rec.called
    /\ rec.result.status = "Success"
    /\ \E k \in CaseIds : Registered(k) /\ Record(k).evidence_log # <<>>

====
